---- MODULE Spec2Model ----
(***************************************************************************)
(* Model of Thunder/bot/plugins/stream.py: the link/receive handlers, the  *)
(* single-item pipeline (process_single), the batch orchestrator           *)
(* (process_batch), the media forwarder (fwd_media) and the button         *)
(* fallback sender (_safe_send_with_buttons).                              *)
(*                                                                         *)
(* One request is followed from the handler that accepts it to the return  *)
(* (or the escaping exception) of the coroutine it awaits.  Every remote   *)
(* call's outcome is chosen by the environment.                            *)
(***************************************************************************)
EXTENDS Integers, Sequences, FiniteSets, TLC

\* ------------------------------------------------------------------ bounds
\* largest number of files a /link command asks for
MaxCount == 23
\* deviations of the environment per request: a call that sees any failure or
\* rate-limit signal, a fetched message without media, a link record whose URLs
\* are unusable in buttons
MaxFaults == 1
\* rate-limit signals one remote call may see before its final outcome
MaxFlood == 1
\* pieces that follow the head of a link given to the sanitizer
MaxTail == 2

\* ------------------------------------------------------- program constants
\* range(0, count, 10) / min(10, ...): ids fetched per window
WINDOW == 10
\* range(0, len(links_list), 20): links per delivery message
CHUNK == 20
\* (processed + failed) % 5
TALLY_EVERY == 5

\* ------------------------------------------------------- outcomes of calls
\* An outcome is what one invocation of a remote operation produced: Ok, or
\* an exception with its class and the text str(e) yields.
Ok == [cls |-> "none", text |-> ""]
FloodWait == [cls |-> "FloodWait", text |-> "FLOOD_WAIT_X"]
MessageNotModified == [cls |-> "MessageNotModified", text |-> "MESSAGE_NOT_MODIFIED"]
MessageDeleteForbidden == [cls |-> "MessageDeleteForbidden", text |-> "MESSAGE_DELETE_FORBIDDEN"]
ButtonUrlInvalid == [cls |-> "ButtonUrlInvalid", text |-> "BUTTON_URL_INVALID"]
\* an error of another class whose text names the button condition
GenericButtonError == [cls |-> "RPCError", text |-> "BUTTON_URL_INVALID"]
CaptionTooLong == [cls |-> "MediaCaptionTooLong", text |-> "MEDIA_CAPTION_TOO_LONG"]
OtherError == [cls |-> "RPCError", text |-> "CHAT_WRITE_FORBIDDEN"]
\* the error a failing gen_links raises
LinkError == [cls |-> "Exception", text |-> "LINK_GENERATION_FAILED"]

\* str(e)
Str(e) == e.text

\* `"TOKEN" in str(e)`
InText(token, e) == Str(e) = token
\* `except Cls as e` (the classes used here have no subclass among the outcomes)
IsInstance(e, cls) == e.cls = cls

\* The outcomes of the successive invocations one handle_flood_wait call makes:
\* up to MaxFlood rate-limit signals, then a final outcome drawn from `finals`.
Runs(finals) ==
    { [i \in 1..(n + 1) |-> IF i <= n THEN FloodWait ELSE f] :
        n \in 0..MaxFlood, f \in finals }

\* handle_flood_wait(func, ...): invoke; on a rate-limit signal wait and invoke
\* again; return or raise whatever the first other outcome is.
RECURSIVE handle_flood_wait(_, _)
handle_flood_wait(run, i) ==
    IF IsInstance(run[i], "FloodWait") /\ i < Len(run)
    THEN handle_flood_wait(run, i + 1)
    ELSE [out |-> run[i], calls |-> i]

\* whether a call whose first invocations see run1 deviates from the plain success
Cost(run1) == IF run1 = <<Ok>> THEN 0 ELSE 1

\* ---------------------------------------------------------------- fwd_media
\* the attempts of a fwd_media call that copied nothing yet
NoFwd == [result |-> "none", err |-> Ok, attempts |-> <<>>]

\* variant: the retry is taken after any failure of the first copy
fwd_media_retry_any(run1, run2) ==
    LET a1 == handle_flood_wait(run1, 1)
        t1 == [caption |-> "kept", out |-> a1.out, calls |-> a1.calls]
        a2 == handle_flood_wait(run2, 1)
        t2 == [caption |-> "cleared", out |-> a2.out, calls |-> a2.calls]
    IN  IF a1.out = Ok
        THEN [result |-> "stored", err |-> Ok, attempts |-> <<t1>>]
        ELSE IF a2.out = Ok
             THEN [result |-> "stored", err |-> Ok, attempts |-> <<t1, t2>>]
             ELSE [result |-> "raised", err |-> a2.out, attempts |-> <<t1, t2>>]

\* fwd_media(m_msg): copy to BIN_CHANNEL; on MEDIA_CAPTION_TOO_LONG copy again
\* with caption=None, outside any handler; on another error log, return None.
\* run1, run2: the outcomes the first and the second copy would see.
fwd_media(run1, run2) ==
    LET a1 == handle_flood_wait(run1, 1)
        t1 == [caption |-> "kept", out |-> a1.out, calls |-> a1.calls]
        a2 == handle_flood_wait(run2, 1)
        t2 == [caption |-> "cleared", out |-> a2.out, calls |-> a2.calls]
    IN  IF a1.out = Ok
        THEN [result |-> "stored", err |-> Ok, attempts |-> <<t1>>]
        ELSE IF InText("MEDIA_CAPTION_TOO_LONG", a1.out)
             THEN IF a2.out = Ok
                  THEN [result |-> "stored", err |-> Ok, attempts |-> <<t1, t2>>]
                  ELSE [result |-> "raised", err |-> a2.out, attempts |-> <<t1, t2>>]
             ELSE [result |-> "absent", err |-> Ok, attempts |-> <<t1>>]

\* -------------------------------------------------- _safe_send_with_buttons
NoSend == [result |-> "none", err |-> Ok, attempts |-> <<>>]

\* variant: the generic handler resends after every error
safe_send_resend_any(text, markup, run1, run2) ==
    LET a1 == handle_flood_wait(run1, 1)
        t1 == [text |-> text, markup |-> markup, out |-> a1.out, calls |-> a1.calls]
        a2 == handle_flood_wait(run2, 1)
        t2 == [text |-> text, markup |-> "none", out |-> a2.out, calls |-> a2.calls]
    IN  IF a1.out = Ok
        THEN [result |-> "sent", err |-> Ok, attempts |-> <<t1>>]
        ELSE IF a2.out = Ok
             THEN [result |-> "sent", err |-> Ok, attempts |-> <<t1, t2>>]
             ELSE [result |-> "raised", err |-> a2.out, attempts |-> <<t1, t2>>]

\* _safe_send_with_buttons(func, text=, reply_markup=): send; on ButtonUrlInvalid,
\* or on an error whose text contains BUTTON_URL_INVALID, send again with
\* reply_markup=None; re-raise anything else.
safe_send_with_buttons(text, markup, run1, run2) ==
    LET a1 == handle_flood_wait(run1, 1)
        t1 == [text |-> text, markup |-> markup, out |-> a1.out, calls |-> a1.calls]
        a2 == handle_flood_wait(run2, 1)
        t2 == [text |-> text, markup |-> "none", out |-> a2.out, calls |-> a2.calls]
        retry == IF a2.out = Ok
                 THEN [result |-> "sent", err |-> Ok, attempts |-> <<t1, t2>>]
                 ELSE [result |-> "raised", err |-> a2.out, attempts |-> <<t1, t2>>]
    IN  IF a1.out = Ok
        THEN [result |-> "sent", err |-> Ok, attempts |-> <<t1>>]
        ELSE IF IsInstance(a1.out, "ButtonUrlInvalid") THEN retry
        ELSE IF InText("BUTTON_URL_INVALID", a1.out) THEN retry
        ELSE [result |-> "raised", err |-> a1.out, attempts |-> <<t1>>]

\* ------------------------------------------------ URL sanitizing & buttons
\* A str is a sequence of characters, a character a one-character string: "\t"
\* is the tab, "NBSP" stands for U+00A0 (a space outside ASCII) and "U2100" for
\* U+2100, whose NFKC form is "a/c".  An Optional[str] carries a tag.
None == [some |-> FALSE, s |-> <<>>]
Some(s) == [some |-> TRUE, s |-> s]

\* the concatenation of a sequence of sequences (by halves)
RECURSIVE Flatten(_)
Flatten(ss) ==
    IF ss = <<>> THEN <<>>
    ELSE IF Len(ss) = 1 THEN ss[1]
    ELSE LET half == Len(ss) \div 2
         IN  Flatten(SubSeq(ss, 1, half)) \o Flatten(SubSeq(ss, half + 1, Len(ss)))

LOWERCASE == <<"a", "b", "c", "d", "e", "f", "g", "h", "i", "j", "k", "l", "m",
               "n", "o", "p", "q", "r", "s", "t", "u", "v", "w", "x", "y", "z">>
UPPERCASE == <<"A", "B", "C", "D", "E", "F", "G", "H", "I", "J", "K", "L", "M",
               "N", "O", "P", "Q", "R", "S", "T", "U", "V", "W", "X", "Y", "Z">>
LETTERS == {LOWERCASE[i] : i \in 1..26} \cup {UPPERCASE[i] : i \in 1..26}
DIGITS == {"0", "1", "2", "3", "4", "5", "6", "7", "8", "9"}

\* c.isspace(), for the characters of the model
isspace(c) == c \in {" ", "\t", "NBSP"}
\* c.isascii()
isascii(c) == c \notin {"NBSP", "U2100"}

\* str.lower(), character by character
lower(s) ==
    [i \in 1..Len(s) |->
        IF \E k \in 1..26 : UPPERCASE[k] = s[i]
        THEN LOWERCASE[CHOOSE k \in 1..26 : UPPERCASE[k] = s[i]]
        ELSE s[i]]

\* s.lstrip(chars), s.rstrip(chars) for a set of characters
RECURSIVE lstrip(_, _)
lstrip(s, chars) ==
    IF s /= <<>> /\ Head(s) \in chars THEN lstrip(Tail(s), chars) ELSE s

RECURSIVE rstrip(_, _)
rstrip(s, chars) ==
    IF s /= <<>> /\ s[Len(s)] \in chars
    THEN rstrip(SubSeq(s, 1, Len(s) - 1), chars)
    ELSE s

\* raw.strip(): whitespace off both ends
strip(s) == rstrip(lstrip(s, {" ", "\t", "NBSP"}), {" ", "\t", "NBSP"})

\* s.startswith(prefix)
startswith(s, prefix) == Len(s) >= Len(prefix) /\ SubSeq(s, 1, Len(prefix)) = prefix

\* s.find(c) + 1 for the first of the characters cs: 0 when there is none
find(s, cs) ==
    IF \E i \in 1..Len(s) : s[i] \in cs
    THEN CHOOSE i \in 1..Len(s) : s[i] \in cs /\ \A j \in 1..(i - 1) : s[j] \notin cs
    ELSE 0

\* s[i:] for a 1-based i
From(s, i) == SubSeq(s, i, Len(s))

\* s.replace(old, new) for single characters
replace(s, old, new) == [i \in 1..Len(s) |-> IF s[i] = old THEN new ELSE s[i]]

\* s.split(sep) for a single character
RECURSIVE split(_, _)
split(s, sep) ==
    LET i == find(s, {sep})
    IN  IF i = 0 THEN <<s>> ELSE <<SubSeq(s, 1, i - 1)>> \o split(From(s, i + 1), sep)

\* sep.join(ss)
RECURSIVE join(_, _)
join(ss, sep) ==
    IF ss = <<>> THEN <<>>
    ELSE IF Len(ss) = 1 THEN ss[1]
    ELSE ss[1] \o sep \o join(Tail(ss), sep)

\* ---- urllib.parse, as CPython 3.11 implements it
\* _WHATWG_C0_CONTROL_OR_SPACE and _UNSAFE_URL_BYTES_TO_REMOVE
C0_CONTROL_OR_SPACE == {" ", "\t"}
UNSAFE_URL_BYTES_TO_REMOVE == {"\t"}
scheme_chars == LETTERS \cup DIGITS \cup {"+", "-", "."}
\* the members of uses_netloc that occur here
uses_netloc == {<<>>, <<"f", "t", "p">>, <<"h", "t", "t", "p">>,
                <<"h", "t", "t", "p", "s">>}
\* characters whose NFKC form contains one of / ? # @ :
NFKC_UNSAFE == {"U2100"}
\* what may stand between brackets in a host: an IPv6 address
BRACKETED_HOSTS == {<<":", ":", "1">>}

\* the result of a call that raised ValueError, and of one that returned v
ValueError == [raised |-> TRUE, value |-> None]
Return(v) == [raised |-> FALSE, value |-> v]

\* netloc.partition('[')[2].partition(']')[0]
bracketed_host(netloc) ==
    LET after == From(netloc, find(netloc, {"["}) + 1)
        close == find(after, {"]"})
    IN  IF close = 0 THEN after ELSE SubSeq(after, 1, close - 1)

\* the ValueErrors of urlsplit: unbalanced brackets, a bracketed host that is
\* no IPv6 address, a netloc with characters that are unsafe under NFKC
netloc_invalid(netloc) ==
    LET open == \E i \in 1..Len(netloc) : netloc[i] = "["
        shut == \E i \in 1..Len(netloc) : netloc[i] = "]"
    IN  \/ open /= shut
        \/ open /\ shut /\ bracketed_host(netloc) \notin BRACKETED_HOSTS
        \/ \E i \in 1..Len(netloc) : netloc[i] \in NFKC_UNSAFE

\* s.partition(c): what stands before and after the first of the characters cs
partition_at(s, i) ==
    IF i = 0 THEN [before |-> s, after |-> <<>>]
    ELSE [before |-> SubSeq(s, 1, i - 1), after |-> From(s, i + 1)]

partition(s, cs) == partition_at(s, find(s, cs))

\* _splitnetloc(url, 2) for what follows "//": the netloc ends before the first
\* of / ? #, found at delim
splitnetloc(rest, delim) ==
    IF delim = 0 THEN [netloc |-> rest, url |-> <<>>]
    ELSE [netloc |-> SubSeq(rest, 1, delim - 1), url |-> From(rest, delim)]

\* urlsplit: `if url[:2] == '//': netloc, url = _splitnetloc(url, 2)`
split_netloc(u) ==
    IF startswith(u, <<"/", "/">>)
    THEN splitnetloc(From(u, 3), find(From(u, 3), {"/", "?", "#"}))
    ELSE [netloc |-> <<>>, url |-> u]

\* urlsplit: the netloc is checked, the result put together; pq is the url
\* without its fragment, cut at the first "?"
split_result(scheme, netloc, pq, fragment) ==
    IF netloc_invalid(netloc)
    THEN [raised |-> TRUE, scheme |-> <<>>, netloc |-> <<>>, path |-> <<>>,
          query |-> <<>>, fragment |-> <<>>]
    ELSE [raised |-> FALSE, scheme |-> scheme, netloc |-> netloc, path |-> pq.before,
          query |-> pq.after, fragment |-> fragment]

\* urlsplit: `if '?' in url: url, query = url.split('?', 1)`; uf is the url cut at
\* the first "#"
split_query(scheme, netloc, uf) ==
    split_result(scheme, netloc, partition(uf.before, {"?"}), uf.after)

\* urlsplit: `if '#' in url: url, fragment = url.split('#', 1)`; nl is the netloc
\* and what follows it
split_fragment(scheme, nl) == split_query(scheme, nl.netloc, partition(nl.url, {"#"}))

\* urlsplit: the scheme is what stands before the first ":", found at i, when it
\* starts with an ASCII letter and consists of scheme characters
split_scheme(u, i) ==
    IF /\ i > 1
       /\ isascii(u[1]) /\ u[1] \in LETTERS
       /\ \A k \in 1..(i - 1) : u[k] \in scheme_chars
    THEN split_fragment(lower(SubSeq(u, 1, i - 1)), split_netloc(From(u, i + 1)))
    ELSE split_fragment(<<>>, split_netloc(u))

\* urlsplit: leading C0 controls and spaces are stripped, tabs removed throughout
url_cleaned(url) ==
    SelectSeq(lstrip(url, C0_CONTROL_OR_SPACE), LAMBDA c : c \notin UNSAFE_URL_BYTES_TO_REMOVE)

\* urlsplit(url): scheme, netloc, path, query, fragment
urlsplit(url) == split_scheme(url_cleaned(url), find(url_cleaned(url), {":"}))

\* urlunsplit((scheme, netloc, url, query, fragment))
urlunsplit(scheme, netloc, url, query, fragment) ==
    LET u1 == IF netloc /= <<>>
                 \/ (scheme /= <<>> /\ scheme \in uses_netloc
                       /\ ~startswith(url, <<"/", "/">>))
              THEN <<"/", "/">> \o netloc
                     \o (IF url /= <<>> /\ url[1] /= "/" THEN <<"/">> ELSE <<>>) \o url
              ELSE url
        u2 == IF scheme /= <<>> THEN scheme \o <<":">> \o u1 ELSE u1
        u3 == IF query /= <<>> THEN u2 \o <<"?">> \o query ELSE u2
    IN  IF fragment /= <<>> THEN u3 \o <<"#">> \o fragment ELSE u3

\* _ALWAYS_SAFE: the characters quote never encodes
ALWAYS_SAFE == LETTERS \cup DIGITS \cup {"_", ".", "-", "~"}

\* the percent-encoding of the UTF-8 bytes of a character that is not always safe
percent_encoded(c) ==
    CASE c = " " -> <<"%", "2", "0">>
      [] c = "\t" -> <<"%", "0", "9">>
      [] c = "#" -> <<"%", "2", "3">>
      [] c = "%" -> <<"%", "2", "5">>
      [] c = "&" -> <<"%", "2", "6">>
      [] c = "+" -> <<"%", "2", "B">>
      [] c = "/" -> <<"%", "2", "F">>
      [] c = ":" -> <<"%", "3", "A">>
      [] c = "=" -> <<"%", "3", "D">>
      [] c = "?" -> <<"%", "3", "F">>
      [] c = "[" -> <<"%", "5", "B">>
      [] c = "]" -> <<"%", "5", "D">>
      [] c = "NBSP" -> <<"%", "C", "2", "%", "A", "0">>
      [] c = "U2100" -> <<"%", "E", "2", "%", "8", "4", "%", "8", "0">>

\* the characters percent_encoded is defined for
ENCODABLE == {" ", "\t", "#", "%", "&", "+", "/", ":", "=", "?", "[", "]", "NBSP", "U2100"}

\* quote(s, safe=...)
quote(s, safe) ==
    Flatten([i \in 1..Len(s) |->
                IF s[i] \in ALWAYS_SAFE \cup safe THEN <<s[i]>> ELSE percent_encoded(s[i])])

\* quote_plus(s, safe=''): as quote, with every space as a plus sign
quote_plus(s) == replace(quote(s, {" "}), " ", "+")

\* unquote(s): each %XX escape is decoded, a % that starts no escape is kept.  (The
\* escapes that occur in the model are those percent_encoded produces.)
RECURSIVE unquote(_)
unquote(s) ==
    IF s = <<>> THEN <<>>
    ELSE IF \E c \in ENCODABLE : startswith(s, percent_encoded(c))
         THEN LET c == CHOOSE c \in ENCODABLE : startswith(s, percent_encoded(c))
              IN  <<c>> \o unquote(From(s, Len(percent_encoded(c)) + 1))
         ELSE <<Head(s)>> \o unquote(Tail(s))

\* parse_qsl(qs, keep_blank_values=True): the (name, value) pairs of the fields
\* between "&"; an empty field is skipped, a field without "=" has the value ""
parse_qsl(qs) ==
    LET fields == IF qs = <<>> THEN <<>>
                  ELSE SelectSeq(split(qs, "&"), LAMBDA f : f /= <<>>)
        name(f) == LET i == find(f, {"="}) IN IF i = 0 THEN f ELSE SubSeq(f, 1, i - 1)
        value(f) == LET i == find(f, {"="}) IN IF i = 0 THEN <<>> ELSE From(f, i + 1)
    IN  [k \in 1..Len(fields) |->
            <<unquote(replace(name(fields[k]), "+", " ")),
              unquote(replace(value(fields[k]), "+", " "))>>]

\* urlencode(pairs, doseq=True) for pairs of strings
urlencode(pairs) ==
    join([k \in 1..Len(pairs) |->
            quote_plus(pairs[k][1]) \o <<"=">> \o quote_plus(pairs[k][2])], <<"&">>)

\* ---- _sanitize_url
\* len(safe) > 1024
MAX_URL_LEN == 1024
\* quote(parts.path, safe="/%._-~")
PATH_SAFE == {"/", "%", ".", "_", "-", "~"}
HTTP == <<"h", "t", "t", "p">>
HTTPS == <<"h", "t", "t", "p", "s">>
T_ME == <<"t", ".", "m", "e", "/">>
TELEGRAM_ME == <<"t", "e", "l", "e", "g", "r", "a", "m", ".", "m", "e", "/">>
TELEGRAM_DOG == <<"t", "e", "l", "e", "g", "r", "a", "m", ".", "d", "o", "g", "/">>

\* lines 63-65 and 69-71: the URL put together again with the path and the query
\* encoded anew
recompose(parts) ==
    urlunsplit(parts.scheme, parts.netloc, quote(parts.path, PATH_SAFE),
               urlencode(parse_qsl(parts.query)), parts.fragment)

\* lines 52-53: a bare t.me/, telegram.me/ or telegram.dog/ link gets https://
promote(stripped) ==
    IF \/ startswith(stripped, T_ME)
       \/ startswith(stripped, TELEGRAM_ME)
       \/ startswith(stripped, TELEGRAM_DOG)
    THEN HTTPS \o <<":", "/", "/">> \o stripped
    ELSE stripped

\* lines 74-77: a URL longer than 1024 characters is dropped
within_limit(safe) == IF Len(safe) > MAX_URL_LEN THEN Return(None) ELSE Return(Some(safe))

\* lines 69-71: the URL is put together from the parts; a ValueError of the
\* second urlsplit (line 66) has propagated
sanitize_parts(parts) == IF parts.raised THEN ValueError ELSE within_limit(recompose(parts))

\* lines 57-66: only http(s) with a host passes; a URL with whitespace in it is
\* put together and split once more
sanitize_split(s, parts) ==
    IF parts.raised THEN ValueError
    ELSE IF parts.scheme \notin {HTTP, HTTPS} THEN Return(None)
    ELSE IF parts.netloc = <<>> THEN Return(None)
    ELSE IF \E i \in 1..Len(s) : isspace(s[i])
         THEN sanitize_parts(urlsplit(recompose(parts)))
         ELSE sanitize_parts(parts)

\* lines 48-56: nothing is left after strip(); else promote and split
sanitize_stripped(stripped) ==
    IF stripped = <<>> THEN Return(None)
    ELSE sanitize_split(promote(stripped), urlsplit(promote(stripped)))

\* _sanitize_url(raw): the URL made safe for a button, None when it is not an
\* http(s) URL with a host or is too long; a ValueError of urlsplit propagates
sanitize_url(raw) ==
    IF ~raw.some \/ raw.s = <<>> THEN Return(None) ELSE sanitize_stripped(strip(raw.s))

\* ---- get_link_buttons
\* `if stream:` / `if download:` on an Optional[str]
Truthy(v) == v.some /\ v.s /= <<>>

\* variant: the download button is put before the stream button
get_link_buttons_swapped(links) ==
    LET stream == sanitize_url(links.stream_link)
        download == sanitize_url(links.online_link)
        row == (IF Truthy(download.value)
                THEN <<[text |-> "MSG_BUTTON_DOWNLOAD", url |-> download.value.s]>>
                ELSE <<>>)
               \o (IF Truthy(stream.value)
                   THEN <<[text |-> "MSG_BUTTON_STREAM_NOW", url |-> stream.value.s]>>
                   ELSE <<>>)
    IN  IF stream.raised \/ download.raised THEN ValueError
        ELSE IF row /= <<>> THEN Return(Some(<<row>>)) ELSE Return(None)

\* lines 84-101: the row of buttons for the two sanitized links, and the markup
link_row(stream, download) ==
    (IF Truthy(stream)
     THEN <<[text |-> "MSG_BUTTON_STREAM_NOW", url |-> stream.s]>>
     ELSE <<>>)
    \o (IF Truthy(download)
        THEN <<[text |-> "MSG_BUTTON_DOWNLOAD", url |-> download.s]>>
        ELSE <<>>)

\* `if row: return InlineKeyboardMarkup([row])`, else None
link_markup(row) == IF row /= <<>> THEN Return(Some(<<row>>)) ELSE Return(None)

\* lines 81-82 have returned stream and download, or one of them has raised
link_buttons(stream, download) ==
    IF stream.raised \/ download.raised THEN ValueError
    ELSE link_markup(link_row(stream.value, download.value))

\* get_link_buttons(links): InlineKeyboardMarkup([row]) with the stream button,
\* then the download button, each only for a link that sanitizes to a URL; None
\* for an empty row; a ValueError of _sanitize_url propagates
get_link_buttons(links) ==
    link_buttons(sanitize_url(links.stream_link), sanitize_url(links.online_link))

\* ------------------------------------------------------------------- state
VARIABLES
    req,          \* the accepted request: handler, chat, requester, num_files, first id
    bin_ok,       \* environment: whether copies into BIN_CHANNEL can succeed at all
    faults,       \* deviations the environment has produced so far
    pc,           \* position of the awaited handler / process_batch
    raised_at,    \* the call whose exception escaped process_batch ("" if none)
    batch_start,  \* process_batch: loop variable of the window loop
    messages,     \* process_batch: the messages of the current window
    mi,           \* process_batch: index of `m` in messages
    processed,    \* process_batch: local counter
    failed,       \* process_batch: local counter
    links_list,   \* process_batch: accumulated online links
    chunk_i,      \* process_batch: loop variable i of the chunk loop
    fetches,      \* log: the bulk fetches issued, in order
    header_edits, \* log: window-header edits issued
    tally_edits,  \* log: the value of processed + failed at each running-tally edit
    chunks_sent,  \* log: the chunks delivered to the request chat, in order
    dm_chunks,    \* log: the private copies of chunks: "sent", or "notice" after a failure
    summary_edits,\* log: final summary edits issued
    handed,       \* log: ids of the messages handed to process_single, in order
    forward_failures, \* log: fwd_media calls that stored nothing
    ps,           \* the activation of process_single
    fx,           \* side effects of the current process_single activation
    fwd,          \* the attempts of the fwd_media call process_single has just awaited
    snd,          \* the attempts of the _safe_send_with_buttons call it has just awaited
    audit_log,    \* ids whose audit-log entry was posted in the archival chat
    url           \* the link record given to the sanitizer and the button builder,
                  \* and what they returned

inputs == <<req, bin_ok>>
batchVars == <<batch_start, messages, mi, processed, failed, links_list, chunk_i>>
logs == <<fetches, header_edits, tally_edits, chunks_sent, dm_chunks, summary_edits>>
calls == <<handed, forward_failures>>
psVars == <<ps, fx, fwd, snd, audit_log>>
vars == <<inputs, faults, pc, raised_at, batchVars, logs, calls, psVars, url>>

\* ------------------------------------------------------------------ helpers
Min(a, b) == IF a < b THEN a ELSE b

\* list(range(a, b))
Range(a, b) == [k \in 1..(IF b > a THEN b - a ELSE 0) |-> a + k - 1]

\* links_list[i:i+20] for a 0-based i
Slice(s, i, n) == SubSeq(s, i + 1, Min(i + n, Len(s)))

\* the chats a /link command comes from, with the id of the message it replies
\* to: a group member, an anonymous group admin, a channel post
LinkChats ==
    { [chat_type |-> "group", has_user |-> TRUE, first_id |-> 1],
      [chat_type |-> "group", has_user |-> FALSE, first_id |-> 4],
      [chat_type |-> "channel", has_user |-> FALSE, first_id |-> 2] }

\* the requests the handlers accept: a media message in a private chat, or a
\* /link command for num_files messages starting at first_id
Requests ==
    { [handler |-> "private_receive_handler", chat_type |-> "private",
       has_user |-> TRUE, num_files |-> 1, first_id |-> 3] }
    \cup
    { [handler |-> "link_handler", chat_type |-> c.chat_type, has_user |-> c.has_user,
       num_files |-> n, first_id |-> c.first_id] :
        c \in LinkChats, n \in 1..MaxCount }

\* msg.chat.type != enums.ChatType.PRIVATE and msg.from_user
WantsPrivateCopy == req.chat_type /= "private" /\ req.has_user

NoLinks == [online_link |-> 0, usable |-> FALSE]
NoFx == [generated |-> 0, delivered |-> 0, dm |-> 0, notice |-> 0, audit |-> 0,
         status_delete |-> 0, status_edit |-> 0, alert |-> <<>>]

\* secrets.token_hex(6): the correlation tokens an alert can carry
Tokens == {"5f0c9a41d2e7", "b81e03f6a49c"}
Idle == [pc |-> "idle", file |-> 0, status |-> "none", in_batch |-> FALSE,
         links |-> NoLinks, result |-> "none", err |-> Ok, at |-> ""]

\* the activation record of process_single(bot, msg, file_msg, status_msg, ...)
Call(file, status, in_batch) ==
    [pc |-> "called", file |-> file, status |-> status, in_batch |-> in_batch,
     links |-> NoLinks, result |-> "none", err |-> Ok, at |-> ""]

\* the record gen_links returns carries URLs that sanitize, or URLs that do not
UsableLinks ==
    [stream_link |-> Some(HTTPS \o <<":", "/", "/", "h", "/", "w", "/", "f">>),
     online_link |-> Some(HTTPS \o <<":", "/", "/", "h", "/", "d", "/", "f">>)]
UnusableLinks ==
    [stream_link |-> Some(<<"j", "a", "v", "a", "s", "c", "r", "i", "p", "t", ":", "x">>),
     online_link |-> None]
UsableMarkup == get_link_buttons(UsableLinks)
UnusableMarkup == get_link_buttons(UnusableLinks)

\* lines 128 and 301: markup = get_link_buttons(links), by whether it is None
MarkupOf(links) ==
    IF Truthy((IF links.usable THEN UsableMarkup ELSE UnusableMarkup).value)
    THEN "buttons"
    ELSE "none"

\* the sanitizer and the button builder at rest
NoUrl == [pc |-> "idle", links |-> [stream_link |-> None, online_link |-> None],
          stream |-> Return(None), download |-> Return(None), markup |-> Return(None)]

\* final outcomes a send can have: a button rejection needs buttons
SendFinals(markup) ==
    IF markup = "buttons"
    THEN {Ok, ButtonUrlInvalid, GenericButtonError, OtherError}
    ELSE {Ok, OtherError}

\* lines 190-193: one file goes to process_single, more go to process_batch
IsBatch == req.handler = "link_handler" /\ req.num_files /= 1

Init ==
    /\ req \in Requests
    /\ bin_ok \in BOOLEAN
    /\ faults = 0
    /\ pc = IF IsBatch THEN "header" ELSE "single_call"
    /\ raised_at = ""
    /\ batch_start = 0
    /\ messages = <<>>
    /\ mi = 1
    /\ processed = 0
    /\ failed = 0
    /\ links_list = <<>>
    /\ chunk_i = 0
    /\ fetches = <<>>
    /\ header_edits = 0
    /\ tally_edits = <<>>
    /\ chunks_sent = <<>>
    /\ dm_chunks = <<>>
    /\ summary_edits = 0
    /\ handed = <<>>
    /\ forward_failures = 0
    /\ ps = Idle
    /\ fx = NoFx
    /\ fwd = NoFwd
    /\ snd = NoSend
    /\ audit_log = <<>>
    /\ url = NoUrl

\* ----------------------------------------------------------- process_single
\* where process_single goes after links are generated and delivered
AfterDelivery == IF WantsPrivateCopy THEN "dm" ELSE "audit"

\* `return links` / `return None`
Returned(result) == [ps EXCEPT !.pc = "returned", !.result = result]

\* variant: an absent forward is treated like a raised one
AfterForward_except(call, r) ==
    IF r.result = "stored"
    THEN [call EXCEPT !.pc = "gen_links"]
    ELSE [call EXCEPT !.pc = "except", !.err = r.err, !.at = "forward"]

\* lines 281-284, 348: with a stored copy go on to the links; `if not stored_msg:
\* return None`; an exception escaping fwd_media enters the handler of line 348
AfterForward(call, r) ==
    CASE r.result = "stored" -> [call EXCEPT !.pc = "gen_links"]
      [] r.result = "absent" -> [call EXCEPT !.pc = "returned", !.result = "absent"]
      [] OTHER -> [call EXCEPT !.pc = "except", !.err = r.err, !.at = "forward"]

\* lines 280-284: stored_msg = await fwd_media(file_msg); absent ends the call,
\* an exception escaping fwd_media is caught by the handler of line 348
PS_Forward(call) ==
    \E run1 \in Runs({Ok, CaptionTooLong, OtherError}),
       run2 \in Runs({Ok, OtherError}) :
        LET r == fwd_media(run1, run2)
        IN  /\ IF bin_ok
               THEN faults + Cost(run1) <= MaxFaults
               ELSE run1 = <<OtherError>>
            /\ Len(r.attempts) = 2 \/ run2 = <<Ok>>
            /\ faults' = IF bin_ok THEN faults + Cost(run1) ELSE faults
            /\ fwd' = r
            /\ forward_failures' = forward_failures + (IF r.result = "stored" THEN 0 ELSE 1)
            /\ fx' = NoFx
            /\ ps' = AfterForward(call, r)

\* lines 286-290: links = await gen_links(stored_msg, ...); the record names the
\* online link of the stored copy and carries URLs that are usable in buttons or
\* not.  (The record of the fwd_media call is dropped here, that of the last send
\* at the audit-log entry: they describe the call just awaited.)
PS_GenLinks ==
    /\ ps.pc = "gen_links"
    /\ \/ \E usable \in BOOLEAN :
            /\ usable \/ faults < MaxFaults
            /\ faults' = IF usable THEN faults ELSE faults + 1
            /\ ps' = [ps EXCEPT !.links = [online_link |-> ps.file, usable |-> usable],
                                !.pc = IF ps.in_batch THEN AfterDelivery ELSE "send_link"]
            /\ fx' = [fx EXCEPT !.generated = 1]
       \/ /\ faults < MaxFaults
          /\ faults' = faults + 1
          /\ ps' = [ps EXCEPT !.pc = "except", !.err = LinkError, !.at = "gen_links"]
          /\ fx' = fx
    /\ fwd' = NoFwd
    /\ UNCHANGED <<inputs, url, pc, raised_at, batchVars, logs, calls, snd, audit_log>>

\* line 290 and send_link (121-139): reply to the request with the links and buttons
PS_SendLink ==
    /\ ps.pc = "send_link"
    /\ \E run1 \in Runs(SendFinals(MarkupOf(ps.links))),
          run2 \in Runs({Ok, OtherError}) :
        LET r == safe_send_with_buttons("links", MarkupOf(ps.links), run1, run2)
        IN  /\ faults + Cost(run1) <= MaxFaults
            /\ Len(r.attempts) = 2 \/ run2 = <<Ok>>
            /\ faults' = faults + Cost(run1)
            /\ snd' = r
            /\ IF r.result = "sent"
               THEN /\ fx' = [fx EXCEPT !.delivered = @ + 1]
                    /\ ps' = [ps EXCEPT !.pc = AfterDelivery]
               ELSE /\ fx' = fx
                    /\ ps' = [ps EXCEPT !.pc = "except", !.err = r.err,
                                        !.at = "send_link"]
    /\ UNCHANGED <<inputs, url, pc, raised_at, batchVars, logs, calls, fwd, audit_log>>

\* reply_user_err(msg, MSG_ERROR_DM_FAILED): the notice in the request chat
reply_user_err(f) == [f EXCEPT !.notice = @ + 1]

\* variant: a failure of the private copy reaches the handler of line 348
PS_PrivateCopy_escalates ==
    /\ ps.pc = "dm"
    /\ \E run1 \in Runs(SendFinals(MarkupOf(ps.links))),
          run2 \in Runs({Ok, OtherError}) :
        LET r == safe_send_with_buttons("dm", MarkupOf(ps.links), run1, run2)
        IN  /\ faults + Cost(run1) <= MaxFaults
            /\ Len(r.attempts) = 2 \/ run2 = <<Ok>>
            /\ faults' = faults + Cost(run1)
            /\ snd' = r
            /\ fx' = IF r.result = "sent"
                     THEN [fx EXCEPT !.dm = @ + 1]
                     ELSE reply_user_err([fx EXCEPT !.dm = @ + 1])
            /\ ps' = IF r.result = "sent"
                     THEN [ps EXCEPT !.pc = "audit"]
                     ELSE [ps EXCEPT !.pc = "except", !.err = r.err, !.at = "dm"]
    /\ UNCHANGED <<inputs, url, pc, raised_at, batchVars, logs, calls, fwd, audit_log>>

\* lines 292-312: the private copy; its failure is answered with a notice in
\* the request chat and the call goes on
PS_PrivateCopy ==
    /\ ps.pc = "dm"
    /\ \E run1 \in Runs(SendFinals(MarkupOf(ps.links))),
          run2 \in Runs({Ok, OtherError}) :
        LET r == safe_send_with_buttons("dm", MarkupOf(ps.links), run1, run2)
        IN  /\ faults + Cost(run1) <= MaxFaults
            /\ Len(r.attempts) = 2 \/ run2 = <<Ok>>
            /\ faults' = faults + Cost(run1)
            /\ snd' = r
            /\ fx' = IF r.result = "sent"
                     THEN [fx EXCEPT !.dm = @ + 1]
                     ELSE reply_user_err([fx EXCEPT !.dm = @ + 1])
            /\ ps' = [ps EXCEPT !.pc = "audit"]
    /\ UNCHANGED <<inputs, url, pc, raised_at, batchVars, logs, calls, fwd, audit_log>>

\* lines 315-323: source_info and source_id are both set for a requester, or for
\* a channel; otherwise they stay "" and 0
HasSource == req.has_user \/ req.chat_type = "channel"

\* lines 338, 346: with a status placeholder go on to delete it, else return links
AfterAudit == IF ps.status /= "none"
              THEN [ps EXCEPT !.pc = "delete_status"]
              ELSE Returned("links")

\* lines 314-336: the audit-log entry, a reply to the stored copy
PS_Audit ==
    /\ ps.pc = "audit"
    /\ IF HasSource
       THEN \/ /\ audit_log' = Append(audit_log, ps.file)
               /\ fx' = [fx EXCEPT !.audit = @ + 1]
               /\ ps' = AfterAudit
               /\ faults' = faults
            \/ /\ faults < MaxFaults
               /\ faults' = faults + 1
               /\ ps' = [ps EXCEPT !.pc = "except", !.err = OtherError, !.at = "audit"]
               /\ UNCHANGED <<audit_log, fx>>
       ELSE /\ ps' = AfterAudit
            /\ UNCHANGED <<audit_log, fx, faults>>
    /\ snd' = NoSend
    /\ UNCHANGED <<inputs, url, pc, raised_at, batchVars, logs, calls, fwd>>

\* lines 338-346: delete the status placeholder, swallowing every failure
PS_DeleteStatus ==
    /\ ps.pc = "delete_status"
    /\ \E o \in {Ok, MessageDeleteForbidden, OtherError} :
        /\ o = Ok \/ faults < MaxFaults
        /\ faults' = IF o = Ok THEN faults ELSE faults + 1
        /\ fx' = [fx EXCEPT !.status_delete = @ + 1]
        /\ ps' = [Returned("links") EXCEPT !.status = IF o = Ok THEN "deleted" ELSE @]
    /\ UNCHANGED <<inputs, url, pc, raised_at, batchVars, logs, calls, fwd, snd, audit_log>>

\* notify_own(bot, text): the alert to the operators; it reports nothing back
notify_own(f, text) == [f EXCEPT !.alert = Append(@, text)]

\* lines 360-363: MSG_CRITICAL_ERROR.format(error=str(e), error_id=secrets.token_hex(6))
MSG_CRITICAL_ERROR(e, token) == [error |-> Str(e), error_id |-> token]

\* variant: the edit of the placeholder is not protected, its failure ends the
\* handler before the alert
PS_Except_edit_unprotected ==
    /\ ps.pc = "except"
    /\ \E token \in Tokens :
        IF ps.status /= "none"
        THEN \E o \in {Ok, MessageNotModified, MessageDeleteForbidden, OtherError} :
              /\ faults' = faults
              /\ fx' = IF o = Ok
                       THEN notify_own([fx EXCEPT !.status_edit = @ + 1],
                                       MSG_CRITICAL_ERROR(ps.err, token))
                       ELSE [fx EXCEPT !.status_edit = @ + 1]
              /\ ps' = [Returned("absent") EXCEPT
                          !.status = IF o = Ok THEN "failure_notice" ELSE @]
        ELSE /\ fx' = notify_own(fx, MSG_CRITICAL_ERROR(ps.err, token))
             /\ ps' = Returned("absent")
             /\ faults' = faults
    /\ UNCHANGED <<inputs, url, pc, raised_at, batchVars, logs, calls, fwd, snd, audit_log>>

\* lines 348-364: edit the placeholder to the failure notice, swallowing every
\* failure of the edit, alert the operators, return None.  (The handler is only
\* entered after a counted deviation; a failure of its edit is not counted again.)
PS_Except ==
    /\ ps.pc = "except"
    /\ \E token \in Tokens :
        IF ps.status /= "none"
        THEN \E o \in {Ok, MessageNotModified, MessageDeleteForbidden, OtherError} :
              /\ faults' = faults
              /\ fx' = notify_own([fx EXCEPT !.status_edit = @ + 1],
                                  MSG_CRITICAL_ERROR(ps.err, token))
              /\ ps' = [Returned("absent") EXCEPT
                          !.status = IF o = Ok THEN "failure_notice" ELSE @]
        ELSE /\ fx' = notify_own(fx, MSG_CRITICAL_ERROR(ps.err, token))
             /\ ps' = Returned("absent")
             /\ faults' = faults
    /\ UNCHANGED <<inputs, url, pc, raised_at, batchVars, logs, calls, fwd, snd, audit_log>>

\* ------------------------------------------------------------ process_batch
\* batch_ids = list(range(start_id + batch_start, start_id + batch_start + batch_size))
\* variant: every window asks for a full 10 ids
batch_size_full == WINDOW

batch_size == Min(WINDOW, req.num_files - batch_start)
batch_ids == Range(req.first_id + batch_start, req.first_id + batch_start + batch_size)

\* the exception of the named call escapes process_batch
Raise(at) == pc' = "raised" /\ raised_at' = at

\* lines 374-384: the window-header edit; only MessageNotModified is caught
BatchHeaderEdit ==
    /\ pc = "header"
    /\ \E o \in {Ok, MessageNotModified, OtherError} :
        /\ o = Ok \/ faults < MaxFaults
        /\ faults' = IF o = Ok THEN faults ELSE faults + 1
        /\ header_edits' = header_edits + 1
        /\ IF o = Ok \/ IsInstance(o, "MessageNotModified")
           THEN pc' = "fetch" /\ raised_at' = raised_at
           ELSE Raise("header_edit")
    /\ UNCHANGED <<inputs, url, batchVars, fetches, tally_edits, chunks_sent, dm_chunks,
                   summary_edits, calls, psVars>>

\* where the window goes once `messages` is bound
EnterWindow(msgs) == IF Len(msgs) = 0 THEN "tally" ELSE "item"

\* lines 385-391: the bulk fetch; None and any exception leave messages = []
BatchFetch ==
    /\ pc = "fetch"
    /\ \/ \E nomedia \in SUBSET {batch_ids[k] : k \in 1..Len(batch_ids)} :
            /\ faults + Cardinality(nomedia) <= MaxFaults
            /\ faults' = faults + Cardinality(nomedia)
            /\ messages' = [k \in 1..Len(batch_ids) |->
                              [id |-> batch_ids[k], media |-> batch_ids[k] \notin nomedia]]
            /\ fetches' = Append(fetches, [ids |-> batch_ids, out |-> "list"])
       \/ /\ faults < MaxFaults
          /\ faults' = faults + 1
          /\ messages' = <<>>
          /\ fetches' = Append(fetches, [ids |-> batch_ids, out |-> "nothing"])
    /\ mi' = 1
    /\ pc' = EnterWindow(messages')
    /\ UNCHANGED <<inputs, url, raised_at, batch_start, processed, failed, links_list, chunk_i,
                   header_edits, tally_edits, chunks_sent, dm_chunks, summary_edits,
                   calls, psVars>>

\* variant: the loop over the window's messages ends at the current message
NextItem_break == /\ mi' = mi + 1
                  /\ pc' = "tally"

\* the `for m in messages` loop moves to the next message, or ends
NextItem == /\ mi' = mi + 1
            /\ pc' = IF mi + 1 > Len(messages) THEN "tally" ELSE "item"

\* variant: a message without media is skipped without being counted
BatchItem_skip_uncounted ==
    /\ pc = "item"
    /\ IF messages[mi].media
       THEN /\ PS_Forward(Call(messages[mi].id, "none", TRUE))
            /\ handed' = Append(handed, messages[mi].id)
            /\ pc' = "item_call"
            /\ UNCHANGED <<mi, failed>>
       ELSE /\ failed' = failed
            /\ NextItem
            /\ UNCHANGED <<faults, ps, fx, fwd, calls>>
    /\ UNCHANGED <<inputs, url, raised_at, batch_start, messages, processed, links_list,
                   chunk_i, fetches, header_edits, tally_edits, chunks_sent, dm_chunks,
                   summary_edits, snd, audit_log>>

\* lines 392-394, 400-401: a message without media is a failure; one with media
\* is handed to process_single without a status placeholder, which starts with
\* the forward
BatchItem ==
    /\ pc = "item"
    /\ IF messages[mi].media
       THEN /\ PS_Forward(Call(messages[mi].id, "none", TRUE))
            /\ handed' = Append(handed, messages[mi].id)
            /\ pc' = "item_call"
            /\ UNCHANGED <<mi, failed>>
       ELSE /\ failed' = failed + 1
            /\ NextItem
            /\ UNCHANGED <<faults, ps, fx, fwd, calls>>
    /\ UNCHANGED <<inputs, url, raised_at, batch_start, messages, processed, links_list,
                   chunk_i, fetches, header_edits, tally_edits, chunks_sent, dm_chunks,
                   summary_edits, snd, audit_log>>

\* variant: every returned value counts as a success
CountsAsProcessed_any(result) == TRUE

\* line 395: `if links:`
CountsAsProcessed(result) == result = "links"

\* variant: process_single is started and not awaited: the loop counts the item
\* and goes on while the activation runs
BatchItemResult_not_awaited ==
    /\ pc = "item_call"
    /\ IF CountsAsProcessed(ps.result)
       THEN /\ links_list' = Append(links_list, ps.links.online_link)
            /\ processed' = processed + 1
            /\ failed' = failed
       ELSE /\ failed' = failed + 1
            /\ UNCHANGED <<links_list, processed>>
    /\ NextItem
    /\ UNCHANGED <<inputs, url, faults, raised_at, batch_start, messages, chunk_i, logs,
                   calls, psVars>>

\* lines 395-399: count the item by what process_single returned; the activation
\* and its records end with the call
BatchItemResult ==
    /\ pc = "item_call"
    /\ ps.pc = "returned"
    /\ IF CountsAsProcessed(ps.result)
       THEN /\ links_list' = Append(links_list, ps.links.online_link)
            /\ processed' = processed + 1
            /\ failed' = failed
       ELSE /\ failed' = failed + 1
            /\ UNCHANGED <<links_list, processed>>
    /\ NextItem
    /\ ps' = Idle
    /\ fx' = NoFx
    /\ fwd' = NoFwd
    /\ snd' = NoSend
    /\ UNCHANGED <<inputs, url, faults, raised_at, batch_start, messages, chunk_i, logs,
                   calls, audit_log>>

\* line 402: (processed + failed) % 5 == 0 or (processed + failed) == count
TallyDue(done, count) == done % TALLY_EVERY = 0 \/ done = count

\* the window loop goes to its next window, or ends and the chunk loop starts
NextWindow ==
    /\ batch_start' = batch_start + WINDOW
    /\ chunk_i' = 0
    /\ pc' = IF batch_start + WINDOW < req.num_files THEN "header"
             ELSE IF Len(links_list) > 0 THEN "chunk" ELSE "summary"
    /\ raised_at' = raised_at

\* lines 402-413, after the window's messages: the running-tally edit when it is
\* due; only MessageNotModified is caught
BatchTally ==
    /\ pc = "tally"
    /\ IF TallyDue(processed + failed, req.num_files)
       THEN \E o \in {Ok, MessageNotModified, OtherError} :
              /\ o = Ok \/ faults < MaxFaults
              /\ faults' = IF o = Ok THEN faults ELSE faults + 1
              /\ tally_edits' = Append(tally_edits, processed + failed)
              /\ IF o = Ok \/ IsInstance(o, "MessageNotModified")
                 THEN NextWindow
                 ELSE Raise("tally_edit") /\ UNCHANGED <<batch_start, chunk_i>>
       ELSE /\ NextWindow
            /\ UNCHANGED <<faults, tally_edits>>
    /\ UNCHANGED <<inputs, url, messages, mi, processed, failed, links_list, fetches,
                   header_edits, chunks_sent, dm_chunks, summary_edits, calls, psVars>>

\* variant: the slice ends one element late
ChunkAt_late(links, i) == Slice(links, i, CHUNK + 1)

\* line 415: chunk = links_list[i:i+20]
ChunkAt(links, i) == Slice(links, i, CHUNK)

\* lines 414-437: one round of the chunk loop: the consolidated message to the
\* request chat, then the private copy, whose failure is answered with a notice
\* in the request chat (reply_user_err)
BatchChunk ==
    /\ pc = "chunk"
    /\ \E o \in {Ok, OtherError} :
        /\ o = Ok \/ faults < MaxFaults
        /\ IF o = Ok
           THEN /\ chunks_sent' = Append(chunks_sent, ChunkAt(links_list, chunk_i))
                /\ chunk_i' = chunk_i + CHUNK
                /\ pc' = IF chunk_i + CHUNK < Len(links_list) THEN "chunk" ELSE "summary"
                /\ raised_at' = raised_at
                /\ IF WantsPrivateCopy
                   THEN \E d \in {Ok, OtherError} :
                          /\ d = Ok \/ faults < MaxFaults
                          /\ faults' = IF d = Ok THEN faults ELSE faults + 1
                          /\ dm_chunks' = Append(dm_chunks,
                                                  IF d = Ok THEN "sent" ELSE "notice")
                   ELSE UNCHANGED <<faults, dm_chunks>>
           ELSE /\ Raise("chunk_send")
                /\ faults' = faults + 1
                /\ UNCHANGED <<chunks_sent, chunk_i, dm_chunks>>
    /\ UNCHANGED <<inputs, url, batch_start, messages, mi, processed, failed, links_list,
                   fetches, header_edits, tally_edits, summary_edits, calls, psVars>>

\* lines 438-445: the final summary edit, outside any handler
BatchSummary ==
    /\ pc = "summary"
    /\ \E o \in {Ok, MessageNotModified, OtherError} :
        /\ o = Ok \/ faults < MaxFaults
        /\ faults' = IF o = Ok THEN faults ELSE faults + 1
        /\ summary_edits' = summary_edits + 1
        /\ IF o = Ok
           THEN pc' = "done" /\ raised_at' = raised_at
           ELSE Raise("summary_edit")
    /\ UNCHANGED <<inputs, url, batchVars, fetches, header_edits, tally_edits, chunks_sent,
                   dm_chunks, calls, psVars>>

\* ----------------------------------------------------------------- handlers
\* lines 190-191 and 215: one item, with the status placeholder just posted
SingleCall ==
    /\ pc = "single_call"
    /\ PS_Forward(Call(req.first_id, "live", FALSE))
    /\ pc' = "single_wait"
    /\ UNCHANGED <<inputs, url, raised_at, batchVars, logs, handed, snd, audit_log>>

\* the handler ends when process_single has returned
SingleReturn ==
    /\ pc = "single_wait"
    /\ ps.pc = "returned"
    /\ pc' = "done"
    /\ ps' = [ps EXCEPT !.pc = "idle"]
    /\ UNCHANGED <<inputs, url, faults, raised_at, batchVars, logs, calls, fx, fwd, snd, audit_log>>

Next ==
    \/ SingleCall
    \/ SingleReturn
    \/ PS_GenLinks
    \/ PS_SendLink
    \/ PS_PrivateCopy
    \/ PS_Audit
    \/ PS_DeleteStatus
    \/ PS_Except
    \/ BatchHeaderEdit
    \/ BatchFetch
    \/ BatchItem
    \/ BatchItemResult
    \/ BatchTally
    \/ BatchChunk
    \/ BatchSummary

Spec == Init /\ [][Next]_vars

\* ------------------------------------------------- the sanitizer on its own
\* The link records get_link_buttons is applied to: one link is a head followed
\* by up to MaxTail pieces, the other is absent or a plain URL.
Pieces ==
    { <<"/">>, <<"/", "p">>, <<"?">>, <<"?", "q", "=", "1">>, <<"&", "r">>, <<"=">>,
      <<"#", "f">>, <<" ">>, <<" ", "x">>, <<"\t", "x">>, <<"NBSP", "x">>,
      <<"%", "2", "0">>, <<"%">>, <<"+">>, <<"[">>, <<"]">> }

Heads ==
    { <<>>,
      HTTP \o <<":", "/", "/", "h">>,
      HTTPS \o <<":", "/", "/", "h">>,
      <<" ">> \o HTTPS \o <<":", "/", "/", "h">>,
      <<"H", "T", "T", "P", ":", "/", "/", "h">>,
      HTTP \o <<":">>,
      <<"/", "/", "h">>,
      <<"f", "t", "p", ":", "/", "/", "h">>,
      <<"j", "a", "v", "a", "s", "c", "r", "i", "p", "t", ":", "x">>,
      <<"t", ".", "m", "e">>,
      <<"t", "e", "l", "e", "g", "r", "a", "m", ".", "m", "e">>,
      <<"t", "e", "l", "e", "g", "r", "a", "m", ".", "d", "o", "g">>,
      HTTPS \o <<":", "/", "/", "[", ":", ":", "1", "]">>,
      HTTPS \o <<":", "/", "/", "U2100">> }

RECURSIVE Tails(_)
Tails(n) ==
    IF n = 0 THEN {<<>>}
    ELSE LET shorter == Tails(n - 1)
         IN  shorter \cup {t \o p : t \in shorter, p \in Pieces}

\* URLs at the length limit: "https://h/" and a path that fills 1024 characters,
\* or one more
LongRaws ==
    { Some(HTTPS \o <<":", "/", "/", "h", "/">> \o [i \in 1..n |-> "x"]) :
        n \in {MAX_URL_LEN - 10, MAX_URL_LEN - 9} }

PlainRaws == {None, Some(HTTPS \o <<":", "/", "/", "h", "/", "d">>)}

\* the records that carry raw as one link and a plain one as the other
LinkRecords(raw) ==
    { [stream_link |-> raw, online_link |-> d] : d \in PlainRaws }
    \cup { [stream_link |-> d, online_link |-> raw] : d \in PlainRaws }

\* _sanitize_url applied to each link of the record
UrlSanitize ==
    /\ url.pc = "start"
    /\ url' = [url EXCEPT !.pc = "sanitized",
                          !.stream = sanitize_url(url.links.stream_link),
                          !.download = sanitize_url(url.links.online_link)]
    /\ UNCHANGED <<inputs, faults, pc, raised_at, batchVars, logs, calls, psVars>>

\* get_link_buttons applied to the record
UrlButtons ==
    /\ url.pc = "sanitized"
    /\ url' = [url EXCEPT !.pc = "built", !.markup = get_link_buttons(url.links)]
    /\ UNCHANGED <<inputs, faults, pc, raised_at, batchVars, logs, calls, psVars>>

InitUrl ==
    /\ \/ \E h \in Heads, t \in Tails(MaxTail) :
            url \in {[NoUrl EXCEPT !.pc = "start", !.links = l] :
                       l \in LinkRecords(Some(h \o t))}
       \/ \E raw \in LongRaws \cup {None} :
            url \in {[NoUrl EXCEPT !.pc = "start", !.links = l] : l \in LinkRecords(raw)}
    /\ req = [handler |-> "private_receive_handler", chat_type |-> "private",
              has_user |-> TRUE, num_files |-> 1, first_id |-> 3]
    /\ bin_ok = TRUE
    /\ faults = 0
    /\ pc = "done"
    /\ raised_at = ""
    /\ batch_start = 0
    /\ messages = <<>>
    /\ mi = 1
    /\ processed = 0
    /\ failed = 0
    /\ links_list = <<>>
    /\ chunk_i = 0
    /\ fetches = <<>>
    /\ header_edits = 0
    /\ tally_edits = <<>>
    /\ chunks_sent = <<>>
    /\ dm_chunks = <<>>
    /\ summary_edits = 0
    /\ handed = <<>>
    /\ forward_failures = 0
    /\ ps = Idle
    /\ fx = NoFx
    /\ fwd = NoFwd
    /\ snd = NoSend
    /\ audit_log = <<>>

NextUrl ==
    \/ UrlSanitize
    \/ UrlButtons

SpecUrl == InitUrl /\ [][NextUrl]_vars

\* =================================================================== claims
\* ceil(n / d)
CeilDiv(n, d) == (n + d - 1) \div d

\* the window loop of process_batch has ended
WindowsDone ==
    /\ IsBatch
    /\ pc \in {"chunk", "summary", "done"} \/ raised_at \in {"chunk_send", "summary_edit"}

\* the chunk loop of process_batch has ended
ChunksDone == IsBatch /\ (pc \in {"summary", "done"} \/ raised_at = "summary_edit")

\* ---- C1: once the final summary edit is issued, every one of the count ids has
\* been counted as a success or a failure: processed + failed = count, whatever
\* the fetches and the items did.
C1_AllCounted == summary_edits > 0 => processed + failed = req.num_files

\* ---- C2: with every fetch succeeding, the running-tally edits are issued when
\* the completions reach 5, 10, 15, ... and once more at count.
TalliesEveryFive(count) ==
    LET n == count \div TALLY_EVERY
    IN  [k \in 1..n |-> TALLY_EVERY * k] \o (IF count % TALLY_EVERY = 0 THEN <<>> ELSE <<count>>)

C2_TallyEveryFive ==
    (WindowsDone /\ \A k \in 1..Len(fetches) : fetches[k].out = "list")
        => tally_edits = TalliesEveryFive(req.num_files)

\* ---- C3: the bulk fetches are issued in ascending order, the k-th asking for the
\* min(10, remaining) consecutive ids that follow those already asked for; when the
\* window loop has ended there were ceil(count/10) of them and together they ask
\* for first_id .. first_id+count-1, each id once.
WindowIds(k) ==
    LET before == WINDOW * (k - 1)
        size == Min(WINDOW, req.num_files - before)
    IN  [j \in 1..size |-> req.first_id + before + j - 1]

C3_Windows ==
    /\ IsBatch \/ fetches = <<>>
    /\ Len(fetches) <= CeilDiv(req.num_files, WINDOW)
    /\ \A k \in 1..Len(fetches) : fetches[k].ids = WindowIds(k)
    /\ WindowsDone =>
        /\ Len(fetches) = CeilDiv(req.num_files, WINDOW)
        /\ Flatten([k \in 1..Len(fetches) |-> fetches[k].ids])
             = [j \in 1..req.num_files |-> req.first_id + j - 1]

C3_Witness ==
    /\ pc = "done"
    /\ req.num_files = 23
    /\ Len(fetches) = 3
    /\ Len(fetches[3].ids) = 3

\* ---- C4: the delivery messages list at most 20 links each, exactly 20 in all
\* but the last, and follow the accumulated links in order; when the chunk loop
\* has ended there are ceil(successCount/20) of them and their concatenation is
\* the accumulated links, which are the successful items' links in the order the
\* items were processed.
C4_Chunks ==
    /\ \A k \in 1..Len(chunks_sent) :
        /\ Len(chunks_sent[k]) <= CHUNK
        /\ Len(chunks_sent[k]) >= 1
        /\ k < Len(chunks_sent) => Len(chunks_sent[k]) = CHUNK
    /\ Len(chunks_sent) > 0 =>
        Flatten(chunks_sent) = SubSeq(links_list, 1, Len(Flatten(chunks_sent)))
    /\ ChunksDone =>
        /\ Len(chunks_sent) = CeilDiv(processed, CHUNK)
        /\ Flatten(chunks_sent) = links_list
        /\ Len(links_list) = processed
        /\ \A k \in 1..Len(links_list) :
            /\ \E h \in 1..Len(handed) : handed[h] = links_list[k]
            /\ k > 1 => links_list[k - 1] < links_list[k]

C4_Witness ==
    /\ pc = "done"
    /\ Len(chunks_sent) = 2
    /\ failed = 1
    /\ Len(chunks_sent[2]) < CHUNK

\* ---- C5: a batch that has returned and in which the forward of every one of the
\* count items failed has processed = 0 and failed = count, has sent no delivery
\* message and has issued exactly one final summary edit.  (As long as it runs, it
\* has sent no delivery message and counted no success.)
C5_AllForwardsFail ==
    IsBatch /\ forward_failures = req.num_files =>
        /\ processed = 0
        /\ chunks_sent = <<>>
        /\ links_list = <<>>
        /\ summary_edits <= 1
        /\ pc = "done" => failed = req.num_files /\ summary_edits = 1

C5_Witness ==
    /\ pc = "done"
    /\ req.num_files > WINDOW
    /\ forward_failures = req.num_files
    /\ summary_edits = 1

\* ---- C6: no failure of a window-header edit or of a running-tally edit ends the
\* batch: the exception of such an edit never escapes process_batch.
C6_StatusEditsSwallowed == raised_at \notin {"header_edit", "tally_edit"}

\* ---- C7 (as stated): an item whose processing failed at some step of
\* process_single (forward, link generation, private copy, audit-log entry) is
\* counted in `failed`.
StepFailed ==
    \/ fwd.result \in {"absent", "raised"}
    \/ ps.at \in {"gen_links", "audit"}
    \/ fx.notice > 0

ItemFailed == fwd.result \in {"absent", "raised"} \/ ps.at \in {"gen_links", "audit"}

MediaIds(msgs) ==
    LET m == SelectSeq(msgs, LAMBDA x : x.media)
    IN  [k \in 1..Len(m) |-> m[k].id]

C8_ForwardAttempts ==
    LET a == fwd.attempts
    IN  /\ Len(a) <= 2
        /\ fwd.result /= "none" => Len(a) >= 1 /\ a[1].caption = "kept"
        /\ Len(a) = 2 => a[1].out = CaptionTooLong /\ a[2].caption = "cleared"
        /\ (Len(a) >= 1 /\ a[1].out = CaptionTooLong) => Len(a) = 2
        /\ (Len(a) >= 1 /\ a[1].out \notin {Ok, CaptionTooLong})
              => Len(a) = 1 /\ fwd.result = "absent"

C8_Witness ==
    /\ Len(fwd.attempts) = 2
    /\ fwd.attempts[1].calls = 2
    /\ fwd.result = "stored"

\* ---- C9: fwd_media returns a stored item or absent and lets no exception reach
\* its caller, whatever the copies do.
C9_ForwardNeverRaises == fwd.result /= "raised"

\* ---- C10: _safe_send_with_buttons makes at most two send attempts; there is a
\* second one exactly when the first was rejected for an invalid button URL (the
\* typed error, or an error whose text contains BUTTON_URL_INVALID), and it
\* carries the same text and no buttons; any other error of the first attempt
\* propagates.
ButtonRejection(o) == o = ButtonUrlInvalid \/ o = GenericButtonError

C10_SendAttempts ==
    LET a == snd.attempts
    IN  /\ Len(a) <= 2
        /\ snd.result /= "none" => Len(a) >= 1
        /\ Len(a) = 2 =>
            /\ ButtonRejection(a[1].out)
            /\ a[2].markup = "none"
            /\ a[2].text = a[1].text
        /\ (Len(a) >= 1 /\ ButtonRejection(a[1].out)) => Len(a) = 2
        /\ (Len(a) >= 1 /\ a[1].out /= Ok /\ ~ButtonRejection(a[1].out))
              => Len(a) = 1 /\ snd.result = "raised" /\ snd.err = a[1].out

C10_Witness ==
    /\ Len(snd.attempts) = 2
    /\ snd.attempts[1].out = GenericButtonError
    /\ snd.attempts[1].markup = "buttons"
    /\ snd.result = "sent"

\* ---- C11: when fwd_media yields absent, process_single returns absent and has
\* done nothing else: no links generated, nothing delivered to the request chat,
\* no private copy and no notice, no audit-log entry for the item, the status
\* placeholder neither edited nor deleted, no operator alert.
C11_AbsentForwardNoEffects ==
    fwd.result = "absent" =>
        /\ ps.pc \in {"returned", "idle"}
        /\ ps.result = "absent"
        /\ ps.links = NoLinks
        /\ fx = NoFx
        /\ snd = NoSend
        /\ ps.status = (IF ps.in_batch THEN "none" ELSE "live")
        /\ \A k \in 1..Len(audit_log) : audit_log[k] /= ps.file

C11_Witness ==
    /\ pc = "done"
    /\ ~IsBatch
    /\ fwd.result = "absent"
    /\ ps.status = "live"
    /\ ps.result = "absent"

\* ---- C12: once process_single has returned, a status placeholder that was passed
\* to it is not left live without an attempt on it: with the links returned its
\* delete was attempted, with absent returned its edit to the failure notice was
\* attempted.
C12_StatusNeverLeftLive ==
    (ps.pc = "returned" /\ ps.status /= "none") =>
        /\ ps.result = "links" => fx.status_delete >= 1
        /\ ps.result = "absent" => fx.status_edit >= 1

\* ---- C13: when link generation, the delivery to the request chat or the
\* audit-log entry raises after a successful forward, process_single has, when it
\* returns: attempted one edit of the status placeholder if one was passed, sent
\* exactly one operator alert, carrying the text of the error and a correlation
\* token, also when that edit failed (the placeholder is still live), and
\* returned absent; nothing has escaped to the caller.
RaisedAfterForward == ps.at \in {"gen_links", "send_link", "audit"}

C13_FailureAlerted ==
    /\ ps.pc = "except" => ps.at /= "" /\ ps.err /= Ok
    /\ (ps.pc = "returned" /\ RaisedAfterForward) =>
        /\ ps.result = "absent"
        /\ raised_at = ""
        /\ fx.status_edit = (IF ps.status /= "none" THEN 1 ELSE 0)
        /\ fx.status_delete = 0
        /\ Len(fx.alert) = 1
        /\ fx.alert[1].error = Str(ps.err)
        /\ fx.alert[1].error_id \in Tokens
    /\ fx.alert /= <<>> => ps.at /= ""

C13_Witness ==
    /\ ps.pc = "returned"
    /\ ps.at = "gen_links"
    /\ ps.status = "live"
    /\ fx.status_edit = 1
    /\ Len(fx.alert) = 1
    /\ fx.alert[1].error = "LINK_GENERATION_FAILED"

\* ---- C14: a process_single call that returns the links has posted exactly one
\* audit-log entry for its item before returning, whatever the kind of the
\* request chat and whether or not the requester is identifiable.
C14_AuditEveryLinkRecord ==
    (ps.pc = "returned" /\ ps.result = "links") =>
        /\ fx.audit = 1
        /\ Len(audit_log) >= 1
        /\ audit_log[Len(audit_log)] = ps.file

\* ---- C15: a failed private copy is not escalated.  When the request chat is not
\* private, the requester is identifiable and the private message failed (after
\* any resend without buttons), process_single has put one notice in the request
\* chat and goes on: unless a later step fails as well, it posts the audit-log
\* entry, attempts the delete of the status placeholder when one was passed,
\* raises no alert and returns the links, which a batch counts as processed.
DmFailed == fx.dm = 1 /\ fx.notice >= 1

C15_DmFailureNotEscalated ==
    /\ fx.notice >= 1 => fx.dm = 1
    /\ DmFailed =>
        /\ WantsPrivateCopy
        /\ fx.notice = 1
        /\ ps.pc \in {"audit", "delete_status", "except", "returned", "idle"}
        /\ ps.at \in {"", "audit"}
        /\ (ps.pc \in {"returned", "idle"} /\ ps.at = "") =>
            /\ ps.result = "links"
            /\ CountsAsProcessed(ps.result)
            /\ fx.alert = <<>>
            /\ fx.audit = 1
            /\ audit_log[Len(audit_log)] = ps.file
            /\ fx.status_delete = (IF ps.status /= "none" THEN 1 ELSE 0)
            /\ fx.status_edit = 0

C15_Witness ==
    /\ pc = "item_call"
    /\ ps.pc = "returned"
    /\ DmFailed
    /\ snd = NoSend
    /\ ps.result = "links"
    /\ fx.audit = 1
    /\ processed >= 1

\* ---- C16: what get_link_buttons returns is None or one row of one or two
\* buttons; the row holds the stream button exactly when the stream link
\* sanitizes to a URL, the download button exactly when the download link does,
\* each with that URL, the stream button first; it is None exactly when both
\* links sanitize to None.  (It returns exactly when _sanitize_url returns for
\* both links.)
ButtonsWanted ==
    (IF url.stream.value.some
     THEN <<[text |-> "MSG_BUTTON_STREAM_NOW", url |-> url.stream.value.s]>>
     ELSE <<>>)
    \o (IF url.download.value.some
        THEN <<[text |-> "MSG_BUTTON_DOWNLOAD", url |-> url.download.value.s]>>
        ELSE <<>>)

\* the example of the specification: a javascript: stream link, no download link
JavascriptOnly ==
    /\ url.links.stream_link =
          Some(<<"j", "a", "v", "a", "s", "c", "r", "i", "p", "t", ":", "x">>)
    /\ url.links.online_link = None

C16_Buttons ==
    url.pc = "built" =>
        /\ JavascriptOnly => url.markup = Return(None)
        /\ url.markup.raised <=> (url.stream.raised \/ url.download.raised)
        /\ ~url.markup.raised =>
            LET rows == url.markup.value.s
            IN  /\ url.markup.value.some <=>
                      (url.stream.value.some \/ url.download.value.some)
                /\ Len(rows) = (IF url.markup.value.some THEN 1 ELSE 0)
                /\ \A r \in 1..Len(rows) :
                      /\ Len(rows[r]) \in {1, 2}
                      /\ rows[r] = ButtonsWanted

C16_Witness ==
    /\ url.pc = "built"
    /\ url.markup.value.some
    /\ Len(url.markup.value.s[1]) = 2
    /\ url.markup.value.s[1][1].text = "MSG_BUTTON_STREAM_NOW"
    /\ url.markup.value.s[1][1].url /= url.links.stream_link.s
    /\ url.markup.value.s[1][2].url = url.links.online_link.s

\* ---- C17: _sanitize_url is total: for every input, absent ones included, it
\* returns and does not raise; and for an input that lacks a host, or whose
\* scheme (after the promotion of a bare t.me/, telegram.me/ or telegram.dog/
\* prefix) is neither http nor https, it returns None.
NoWebHost(raw) ==
    \/ ~raw.some
    \/ LET parts == urlsplit(promote(strip(raw.s)))
       IN  ~parts.raised /\ (parts.scheme \notin {HTTP, HTTPS} \/ parts.netloc = <<>>)

C17_AbsentWithoutWebHost ==
    url.pc \in {"sanitized", "built"} =>
        /\ NoWebHost(url.links.stream_link) => url.stream = Return(None)
        /\ NoWebHost(url.links.online_link) => url.download = Return(None)

C17_SanitizeTotal ==
    /\ url.pc \in {"sanitized", "built"} => ~url.stream.raised /\ ~url.download.raised
    /\ C17_AbsentWithoutWebHost

\* ---- C18: a URL that _sanitize_url returns holds no whitespace, wherever the
\* whitespace stood in the stripped candidate (host, path, query or fragment).
HasSpace(s) == \E i \in 1..Len(s) : isspace(s[i])

C18_NoWhitespace ==
    url.pc \in {"sanitized", "built"} =>
        /\ url.stream.value.some => ~HasSpace(url.stream.value.s)
        /\ url.download.value.some => ~HasSpace(url.download.value.s)

\* the part of C18 that holds: whitespace of the path and of the query is
\* encoded (or, for a tab, dropped)
C18_PathAndQueryEncoded ==
    url.pc \in {"sanitized", "built"} =>
        \A out \in {url.stream, url.download} :
            out.value.some =>
                LET parts == urlsplit(out.value.s)
                IN  ~HasSpace(parts.path) /\ ~HasSpace(parts.query)

\* ---- C19: inside one process_batch the items are processed one after another.
\* While an activation of process_single exists, process_batch is waiting for it
\* and it works on the message handed over last; a message is handed over only
\* when no activation exists; the messages are handed over, and the audit-log
\* entries posted, in ascending order of the source message id, each entry for
\* a message handed over before.
Ascending(seq) == \A k \in 2..Len(seq) : seq[k - 1] < seq[k]

C19_Sequential ==
    IsBatch =>
        /\ ps.pc /= "idle" =>
            /\ pc = "item_call"
            /\ ps.in_batch
            /\ Len(handed) >= 1
            /\ ps.file = handed[Len(handed)]
        /\ pc = "item_call" => ps.pc /= "idle"
        /\ pc = "item" => ps = Idle /\ fx = NoFx
        /\ Ascending(handed)
        /\ Ascending(audit_log)
        /\ \A k \in 1..Len(audit_log) : \E h \in 1..Len(handed) : handed[h] = audit_log[k]
        /\ (fx.audit = 1 /\ Len(audit_log) >= 1) => audit_log[Len(audit_log)] = ps.file

C19_Witness ==
    /\ pc = "done"
    /\ req.num_files = 23
    /\ Len(handed) = 23
    /\ Len(audit_log) = 22
    /\ audit_log[1] = req.first_id
    /\ audit_log[22] = req.first_id + 22

\* ---- C20: in every state of process_batch the number of accumulated links is
\* `processed`, and processed + failed is at most the number of messages the
\* fetches have returned so far; in every step neither counter decreases, and
\* the loop over the messages advances by one message exactly when one of the
\* two counters goes up by one, the other staying as it is.
FetchedSoFar ==
    Len(Flatten([k \in 1..Len(fetches) |->
                    IF fetches[k].out = "list" THEN fetches[k].ids ELSE <<>>]))

C20_Counters ==
    /\ [](/\ Len(links_list) = processed
          /\ processed + failed <= FetchedSoFar
          /\ processed + failed <= req.num_files)
    /\ [][/\ processed' \in {processed, processed + 1}
          /\ failed' \in {failed, failed + 1}
          /\ (mi' = mi + 1) <=> (processed' + failed' = processed + failed + 1)
          /\ (mi' = mi + 1) => pc \in {"item", "item_call"}
          /\ Len(links_list') = Len(links_list) + (processed' - processed)]_vars

C20_Witness ==
    /\ pc = "done"
    /\ req.num_files = 23
    /\ processed = 13
    /\ failed = 0
    /\ Len(links_list) = 13
    /\ FetchedSoFar = 13

====
